---- MODULE Spec2Model ----
(***************************************************************************)
(* fastvlq: variable-length integer codec (Vu32/Vu64/Vu128 and the zigzag  *)
(* signed wrappers Vi32/Vi64/Vi128) and its blocking stream adapters.      *)
(*                                                                         *)
(* Fixed-width integers are held as little-endian sequences of 16-bit      *)
(* limbs (limb i is the coefficient of 65536^(i-1)), so that 64- and       *)
(* 128-bit arithmetic keeps its exact width: u16 = 1 limb, u32 = 2,        *)
(* u64 = 4, u128 = 8.  Byte arrays are functions over 0..n-1, indexed as   *)
(* in the source.                                                          *)
(***************************************************************************)
EXTENDS Integers, Sequences, FiniteSets, TLC

VARIABLES
    build,      \* "debug": arithmetic overflow panics; "release": it wraps
    cls,        \* the class of the value being converted
    x,          \* the value handed to encode
    pc,         \* position of the caller: start, encoded, decoded, or a panic
    enc,        \* the fixed-capacity buffer of the Vu/Vi instance
    out,        \* the value returned by decode
    stream,     \* the bytes written to the byte stream and not yet read
    sent,       \* the values handed to write_*, in order
    recv        \* the results returned by read_*, in order

codecVars == <<cls, x, enc, out>>

streamVars == <<stream, sent, recv>>

vars == <<build, cls, x, pc, enc, out, stream, sent, recv>>

\* ------------------------------------------------------------------------
\* Fixed-width integer arithmetic
\* ------------------------------------------------------------------------
Limb == 65536

U16 == 1
U32 == 2
U64 == 4
U128 == 8

Zero(w) == [i \in 1..w |-> 0]

\* an integer literal 0 <= n < 2^31 at width w
Lit(n, w) == [i \in 1..w |-> IF i = 1 THEN n % Limb ELSE IF i = 2 THEN n \div Limb ELSE 0]

\* `1 << k` at width w
Pow2(k, w) == [i \in 1..w |-> IF i = (k \div 16) + 1 THEN 2 ^ (k % 16) ELSE 0]

\* The operators on words below take their operands through a bound
\* variable (a \in {a0}), so that an operand expression is evaluated once.

\* `a as uW`: truncation or zero extension between unsigned widths
Cast(a0, w) ==
    CHOOSE r \in {[i \in 1..w |-> IF i <= Len(a) THEN a[i] ELSE 0] : a \in {a0}} : TRUE

\* `n as u8`
AsU8(a) == a[1] % 256

LimbAt(a, j) == IF j >= 1 /\ j <= Len(a) THEN a[j] ELSE 0

ShlWord(a, k) ==
    LET q == k \div 16
        r == k % 16
    IN  [i \in 1..Len(a) |->
            ((LimbAt(a, i - q) * (2 ^ r)) % Limb) + (LimbAt(a, i - q - 1) \div (2 ^ (16 - r)))]

\* `a << k` (bits shifted out are dropped)
Shl(a0, k) == CHOOSE r \in {ShlWord(a, k) : a \in {a0}} : TRUE

ShrWord(a, k) ==
    LET q == k \div 16
        r == k % 16
    IN  [i \in 1..Len(a) |->
            (LimbAt(a, i + q) \div (2 ^ r)) + ((LimbAt(a, i + q + 1) % (2 ^ r)) * (2 ^ (16 - r)))]

\* logical `a >> k`
Shr(a0, k) == CHOOSE r \in {ShrWord(a, k) : a \in {a0}} : TRUE

\* the carries out of limbs 0..Len(a) of a + b
Carries(a, b) ==
    LET RECURSIVE upto(_)
        upto(i) ==
            IF i = 0 THEN <<0>>
            ELSE CHOOSE r \in {Append(c, (a[i] + b[i] + c[i]) \div Limb) : c \in {upto(i - 1)}} : TRUE
    IN  upto(Len(a))

AddWord(a, b) ==
    CHOOSE r \in {[val |-> [i \in 1..Len(a) |-> (a[i] + b[i] + c[i]) % Limb],
                   ovf |-> c[Len(a) + 1] = 1] : c \in {Carries(a, b)}} : TRUE

\* `a + b`: the wrapped sum and whether it overflowed the width
Add(a0, b0) == CHOOSE r \in {AddWord(a, b) : a \in {a0}, b \in {b0}} : TRUE

\* the borrows out of limbs 0..Len(a) of a - b
Borrows(a, b) ==
    LET RECURSIVE upto(_)
        upto(i) ==
            IF i = 0 THEN <<0>>
            ELSE CHOOSE r \in {Append(c, IF a[i] - b[i] - c[i] < 0 THEN 1 ELSE 0) :
                                  c \in {upto(i - 1)}} : TRUE
    IN  upto(Len(a))

SubWord(a, b) ==
    CHOOSE r \in {[val |-> [i \in 1..Len(a) |-> (a[i] - b[i] - c[i] + Limb) % Limb],
                   ovf |-> c[Len(a) + 1] = 1] : c \in {Borrows(a, b)}} : TRUE

\* `a - b`: the wrapped difference and whether it underflowed
Sub(a0, b0) == CHOOSE r \in {SubWord(a, b) : a \in {a0}, b \in {b0}} : TRUE

RECURSIVE LessFrom(_, _, _)
LessFrom(a, b, i) ==
    IF i = 0 THEN FALSE
    ELSE IF a[i] # b[i] THEN a[i] < b[i]
    ELSE LessFrom(a, b, i - 1)

\* unsigned `a < b` at equal width
Less(a0, b0) == \E a \in {a0}, b \in {b0} : LessFrom(a, b, Len(a))

Leq(a, b) == ~Less(b, a)

\* uN::to_be_bytes
to_be_bytes(a0) ==
    CHOOSE r \in {[i \in 0..(2 * Len(a) - 1) |->
                      LET j == 2 * Len(a) - 1 - i
                      IN  IF j % 2 = 0 THEN a[(j \div 2) + 1] % 256
                          ELSE a[(j \div 2) + 1] \div 256] : a \in {a0}} : TRUE

\* uN::from_le_bytes, the bytes given in source order
from_le_bytes(t0) ==
    CHOOSE r \in {[i \in 1..(Len(t) \div 2) |-> t[2 * i - 1] + 256 * t[2 * i]] : t \in {t0}} : TRUE

\* u8::leading_zeros
leading_zeros(b) ==
    IF b >= 128 THEN 0
    ELSE IF b >= 64 THEN 1
    ELSE IF b >= 32 THEN 2
    ELSE IF b >= 16 THEN 3
    ELSE IF b >= 8 THEN 4
    ELSE IF b >= 4 THEN 5
    ELSE IF b >= 2 THEN 6
    ELSE IF b >= 1 THEN 7
    ELSE 8

\* ------------------------------------------------------------------------
\* macros.rs
\* ------------------------------------------------------------------------

\* prefix!(L, target) whose 9-byte arm passes the byte through unchanged
prefix_nine_passthrough(L, target) ==
    CASE L = 1 -> (target % 128) + 128
      [] L \in 2..7 -> (target % (2 ^ (8 - L))) + 2 ^ (8 - L)
      [] L = 8 -> 1
      [] L = 9 -> target

\* prefix!(L, target): keep the low 8-L bits of target, set the marker bit
prefix(L, target) ==
    CASE L = 1 -> (target % 128) + 128
      [] L \in 2..7 -> (target % (2 ^ (8 - L))) + 2 ^ (8 - L)
      [] L = 8 -> 1
      [] L = 9 -> 0

\* unprefix!(L, target) with masks one bit too wide, keeping the marker bit
unprefix_keeps_marker(L, target) ==
    CASE L \in 1..7 -> target % (2 ^ (9 - L))
      [] L \in 8..9 -> 0

\* unprefix!(L, target)
unprefix(L, target) ==
    CASE L \in 1..7 -> target % (2 ^ (8 - L))
      [] L \in 8..9 -> 0

\* offset!(1) .. offset!(17): the constants the macro arms evaluate to, held
\* at 128 bits as limbs, least significant first; the uses cast to their width
\* offset!(1) = 0 = 0x0000
offset_1 == <<0, 0, 0, 0, 0, 0, 0, 0>>
\* offset!(2) = 1 << 7 = 0x0080
offset_2 == <<128, 0, 0, 0, 0, 0, 0, 0>>
\* offset!(3) = offset!(2) + (1 << 14) = 0x4080
offset_3 == <<16512, 0, 0, 0, 0, 0, 0, 0>>
\* offset!(4) = offset!(3) + (1 << 21) = 0x0020_4080
offset_4 == <<16512, 32, 0, 0, 0, 0, 0, 0>>
\* offset!(5) = offset!(4) + (1 << 28) = 0x1020_4080
offset_5 == <<16512, 4128, 0, 0, 0, 0, 0, 0>>
\* offset!(6) = offset!(5) + (1 << 35) = 0x0008_1020_4080
offset_6 == <<16512, 4128, 8, 0, 0, 0, 0, 0>>
\* offset!(7) = offset!(6) + (1 << 42) = 0x0408_1020_4080
offset_7 == <<16512, 4128, 1032, 0, 0, 0, 0, 0>>
\* offset!(8) = offset!(7) + (1 << 49) = 0x0002_0408_1020_4080
offset_8 == <<16512, 4128, 1032, 2, 0, 0, 0, 0>>
\* offset!(9) = offset!(8) + (1 << 56) = 0x0102_0408_1020_4080
offset_9 == <<16512, 4128, 1032, 258, 0, 0, 0, 0>>
\* offset!(10) = offset!(9) + (1 << 64) = 0x0001_0102_0408_1020_4080
offset_10 == <<16512, 4128, 1032, 258, 1, 0, 0, 0>>
\* offset!(11) = offset!(10) + (1 << 71) = 0x0081_0102_0408_1020_4080
offset_11 == <<16512, 4128, 1032, 258, 129, 0, 0, 0>>
\* offset!(12) = offset!(11) + (1 << 78) = 0x4081_0102_0408_1020_4080
offset_12 == <<16512, 4128, 1032, 258, 16513, 0, 0, 0>>
\* offset!(13) = offset!(12) + (1 << 85) = 0x0020_4081_0102_0408_1020_4080
offset_13 == <<16512, 4128, 1032, 258, 16513, 32, 0, 0>>
\* offset!(14) = offset!(13) + (1 << 92) = 0x1020_4081_0102_0408_1020_4080
offset_14 == <<16512, 4128, 1032, 258, 16513, 4128, 0, 0>>
\* offset!(15) = offset!(14) + (1 << 99) = 0x0008_1020_4081_0102_0408_1020_4080
offset_15 == <<16512, 4128, 1032, 258, 16513, 4128, 8, 0>>
\* offset!(16) = offset!(15) + (1 << 106) = 0x0408_1020_4081_0102_0408_1020_4080
offset_16 == <<16512, 4128, 1032, 258, 16513, 4128, 1032, 0>>
\* offset!(17) = offset!(16) + (1 << 113) = 0x0002_0408_1020_4081_0102_0408_1020_4080
offset_17 == <<16512, 4128, 1032, 258, 16513, 4128, 1032, 2>>

OffsetTable ==
    <<offset_1, offset_2, offset_3, offset_4, offset_5, offset_6, offset_7, offset_8,
      offset_9, offset_10, offset_11, offset_12, offset_13, offset_14, offset_15,
      offset_16, offset_17>>

\* offset!(L)
offset(L) == OffsetTable[L]

\* the exponent of the power of two that offset!(L) adds to offset!(L-1)
OffsetShift == <<0, 7, 14, 21, 28, 35, 42, 49, 56, 64, 71, 78, 85, 92, 99, 106, 113>>

\* encode_offset!(L, n): the rebased value, shifted to the top of its word
encode_offset(L, n) ==
    CASE L = 2 -> Sub(Cast(n, U16), Cast(offset(2), U16))
      [] L = 3 -> LET d == Sub(Cast(n, U32), Cast(offset(3), U32))
                  IN  [val |-> Shl(d.val, 8), ovf |-> d.ovf]
      [] L = 4 -> Sub(Cast(n, U32), Cast(offset(4), U32))
      [] L = 5 -> LET d == Sub(Cast(n, U64), Cast(offset(5), U64))
                  IN  [val |-> Shl(d.val, 8 * 3), ovf |-> d.ovf]
      [] L = 6 -> LET d == Sub(Cast(n, U64), Cast(offset(6), U64))
                  IN  [val |-> Shl(d.val, 8 * 2), ovf |-> d.ovf]
      [] L = 7 -> LET d == Sub(Cast(n, U64), Cast(offset(7), U64))
                  IN  [val |-> Shl(d.val, 8), ovf |-> d.ovf]
      [] L = 8 -> Sub(Cast(n, U64), Cast(offset(8), U64))
      [] L = 9 -> Sub(Cast(n, U64), Cast(offset(9), U64))

\* copy_from_slice_offset!(source, dest, offset): dest[i] = source[i], i < offset
copy_from_slice_offset(source, dest, off) ==
    [i \in DOMAIN dest |-> IF i < off THEN source[i] ELSE dest[i]]

\* ------------------------------------------------------------------------
\* vu64.rs
\* ------------------------------------------------------------------------
VU64_BUF_SIZE == 9

decode_len_vu64(n) == leading_zeros(n) + 1

\* encode_len_vu64 with the last tier boundary taken inclusively
encode_len_vu64_inclusive(n) ==
    IF Less(n, Cast(offset(2), U64)) THEN 1
    ELSE IF Less(n, Cast(offset(3), U64)) THEN 2
    ELSE IF Less(n, Cast(offset(4), U64)) THEN 3
    ELSE IF Less(n, Cast(offset(5), U64)) THEN 4
    ELSE IF Less(n, Cast(offset(6), U64)) THEN 5
    ELSE IF Less(n, Cast(offset(7), U64)) THEN 6
    ELSE IF Less(n, Cast(offset(8), U64)) THEN 7
    ELSE IF Leq(n, Cast(offset(9), U64)) THEN 8
    ELSE 9

encode_len_vu64(n) ==
    IF Less(n, Cast(offset(2), U64)) THEN 1
    ELSE IF Less(n, Cast(offset(3), U64)) THEN 2
    ELSE IF Less(n, Cast(offset(4), U64)) THEN 3
    ELSE IF Less(n, Cast(offset(5), U64)) THEN 4
    ELSE IF Less(n, Cast(offset(6), U64)) THEN 5
    ELSE IF Less(n, Cast(offset(7), U64)) THEN 6
    ELSE IF Less(n, Cast(offset(8), U64)) THEN 7
    ELSE IF Less(n, Cast(offset(9), U64)) THEN 8
    ELSE 9

\* encode_vu64: the 9-byte buffer, and whether a checked operation overflowed
encode_vu64(n) ==
    LET len == encode_len_vu64(n)
        out_buf == [i \in 0..(VU64_BUF_SIZE - 1) |-> 0]
    IN  IF len = 1
        THEN [bytes |-> [out_buf EXCEPT ![0] = prefix(1, AsU8(n))], ovf |-> FALSE]
        ELSE LET e == encode_offset(len, n)
                 buf == to_be_bytes(e.val)
             IN  IF len \in 2..8
                 THEN [bytes |-> [copy_from_slice_offset(buf, out_buf, len)
                                     EXCEPT ![0] = prefix(len, buf[0])],
                       ovf |-> e.ovf]
                 ELSE [bytes |-> [i \in 0..(VU64_BUF_SIZE - 1) |->
                                     IF i = 0 THEN prefix(9, buf[0]) ELSE buf[i - 1]],
                       ovf |-> e.ovf]

\* Vu64::len
Vu64_len(b) == decode_len_vu64(b[0])

\* MarkerArm with the body bytes taken one index too far: n[len] .. n[2]
MarkerArm_off_by_one(n, len, w) ==
    [j \in 1..w |->
        IF j < len THEN n[len - j + 1]
        ELSE IF j = len THEN unprefix(len, n[0])
        ELSE 0]

\* the little-endian byte list of a marker-tier decode arm: bytes len-1..1,
\* then the unprefixed leading byte, then zero fill up to w bytes
MarkerArm(n, len, w) ==
    [j \in 1..w |->
        IF j < len THEN n[len - j]
        ELSE IF j = len THEN unprefix(len, n[0])
        ELSE 0]

\* decode_vu64 with the 9-byte arm rebased by offset!(8)
decode_vu64_wrong_offset(n) ==
    LET len == Vu64_len(n)
    IN  IF len = 1 THEN [val |-> Lit(unprefix(1, n[0]), U64), ovf |-> FALSE]
        ELSE IF len \in 2..8
        THEN Add(from_le_bytes(MarkerArm(n, len, 8)), Cast(offset(len), U64))
        ELSE Add(from_le_bytes(<<n[8], n[7], n[6], n[5], n[4], n[3], n[2], n[1]>>),
                 Cast(offset(8), U64))

\* decode_vu64: the value, and whether the checked addition overflowed
decode_vu64(n) ==
    LET len == Vu64_len(n)
    IN  IF len = 1 THEN [val |-> Lit(unprefix(1, n[0]), U64), ovf |-> FALSE]
        ELSE IF len \in 2..8
        THEN Add(from_le_bytes(MarkerArm(n, len, 8)), Cast(offset(len), U64))
        ELSE Add(from_le_bytes(<<n[8], n[7], n[6], n[5], n[4], n[3], n[2], n[1]>>),
                 Cast(offset(9), U64))

\* Vu64::as_slice: the first len bytes
Vu64_as_slice(b) == [i \in 1..Vu64_len(b) |-> b[i - 1]]

\* ------------------------------------------------------------------------
\* vu32.rs
\* ------------------------------------------------------------------------
VU32_BUF_SIZE == 5

\* decode_len_vu32 without the cap at 5
decode_len_vu32_uncapped(n) == leading_zeros(n) + 1

decode_len_vu32(n) ==
    LET len == leading_zeros(n) + 1
    IN  IF len > 5 THEN 5 ELSE len

\* encode_len_vu32 with the boundary of the 2-byte tier taken inclusively
encode_len_vu32_inclusive(n) ==
    IF Less(n, Cast(offset(2), U32)) THEN 1
    ELSE IF Leq(n, Cast(offset(3), U32)) THEN 2
    ELSE IF Less(n, Cast(offset(4), U32)) THEN 3
    ELSE IF Less(Cast(n, U64), Cast(offset(5), U64)) THEN 4
    ELSE 5

encode_len_vu32(n) ==
    IF Less(n, Cast(offset(2), U32)) THEN 1
    ELSE IF Less(n, Cast(offset(3), U32)) THEN 2
    ELSE IF Less(n, Cast(offset(4), U32)) THEN 3
    ELSE IF Less(Cast(n, U64), Cast(offset(5), U64)) THEN 4
    ELSE 5

\* encode_vu32 with the 5-byte arm shifted by two bytes instead of three
encode_vu32_short_shift(n) ==
    LET len == encode_len_vu32(n)
        out_buf == [i \in 0..(VU32_BUF_SIZE - 1) |-> 0]
    IN  IF len = 1
        THEN [bytes |-> [out_buf EXCEPT ![0] = prefix(1, AsU8(n))], ovf |-> FALSE]
        ELSE IF len \in 2..4
        THEN LET e == encode_offset(len, n)
                 buf == to_be_bytes(e.val)
             IN  [bytes |-> [copy_from_slice_offset(buf, out_buf, len)
                                EXCEPT ![0] = prefix(len, buf[0])],
                  ovf |-> e.ovf]
        ELSE LET n64 == Cast(n, U64)
                 d == Sub(n64, Cast(offset(5), U64))
                 buf == to_be_bytes(Shl(d.val, 8 * 2))
             IN  [bytes |-> [i \in 0..(VU32_BUF_SIZE - 1) |->
                                IF i = 0 THEN prefix(5, buf[0]) ELSE buf[i]],
                  ovf |-> d.ovf]

\* encode_vu32: the 5-byte buffer, and whether a checked operation overflowed
encode_vu32(n) ==
    LET len == encode_len_vu32(n)
        out_buf == [i \in 0..(VU32_BUF_SIZE - 1) |-> 0]
    IN  IF len = 1
        THEN [bytes |-> [out_buf EXCEPT ![0] = prefix(1, AsU8(n))], ovf |-> FALSE]
        ELSE IF len \in 2..4
        THEN LET e == encode_offset(len, n)
                 buf == to_be_bytes(e.val)
             IN  [bytes |-> [copy_from_slice_offset(buf, out_buf, len)
                                EXCEPT ![0] = prefix(len, buf[0])],
                  ovf |-> e.ovf]
        ELSE LET n64 == Cast(n, U64)
                 d == Sub(n64, Cast(offset(5), U64))
                 buf == to_be_bytes(Shl(d.val, 8 * 3))
             IN  [bytes |-> [i \in 0..(VU32_BUF_SIZE - 1) |->
                                IF i = 0 THEN prefix(5, buf[0]) ELSE buf[i]],
                  ovf |-> d.ovf]

\* Vu32::len
Vu32_len(b) == decode_len_vu32(b[0])

\* decode_vu32: the value, and whether a checked addition overflowed
decode_vu32(n) ==
    LET len == Vu32_len(n)
    IN  IF len = 1 THEN [val |-> Lit(unprefix(1, n[0]), U32), ovf |-> FALSE]
        ELSE IF len \in 2..4
        THEN Add(from_le_bytes(MarkerArm(n, len, 4)), Cast(offset(len), U32))
        ELSE LET val == from_le_bytes(<<n[4], n[3], n[2], n[1], unprefix(5, n[0]), 0, 0, 0>>)
                 s == Add(val, Cast(offset(5), U64))
             IN  [val |-> Cast(s.val, U32), ovf |-> s.ovf]

\* Vu32::as_slice
Vu32_as_slice(b) == [i \in 1..Vu32_len(b) |-> b[i - 1]]

\* ------------------------------------------------------------------------
\* vu128.rs
\* ------------------------------------------------------------------------
VU128_BUF_SIZE == 18

\* encode_len_vu128 with the 9-byte window opened one bit too low
encode_len_vu128_min_62(n) ==
    IF Less(n, offset(2)) THEN 1
    ELSE IF Less(n, offset(3)) THEN 2
    ELSE IF Less(n, offset(4)) THEN 3
    ELSE IF Less(n, offset(5)) THEN 4
    ELSE IF Less(n, offset(6)) THEN 5
    ELSE IF Less(n, offset(7)) THEN 6
    ELSE IF Less(n, offset(8)) THEN 7
    ELSE IF Less(n, offset(9)) THEN 8
    ELSE LET nine_byte_min == Add(offset(9), Pow2(62, U128)).val
             nine_byte_max == Add(offset(9), Sub(Pow2(64, U128), Lit(1, U128)).val).val
         IN  IF Leq(nine_byte_min, n) /\ Leq(n, nine_byte_max) THEN 9
             ELSE IF Less(n, offset(11)) THEN 10
             ELSE IF Less(n, offset(12)) THEN 11
             ELSE IF Less(n, offset(13)) THEN 12
             ELSE IF Less(n, offset(14)) THEN 13
             ELSE IF Less(n, offset(15)) THEN 14
             ELSE IF Less(n, offset(16)) THEN 15
             ELSE IF Less(n, offset(17)) THEN 16
             ELSE 18

\* encode_len_vu128 with nine_byte_max left at u64::MAX, offset!(9) not added
encode_len_vu128_max_unrebased(n) ==
    IF Less(n, offset(2)) THEN 1
    ELSE IF Less(n, offset(3)) THEN 2
    ELSE IF Less(n, offset(4)) THEN 3
    ELSE IF Less(n, offset(5)) THEN 4
    ELSE IF Less(n, offset(6)) THEN 5
    ELSE IF Less(n, offset(7)) THEN 6
    ELSE IF Less(n, offset(8)) THEN 7
    ELSE IF Less(n, offset(9)) THEN 8
    ELSE LET nine_byte_min == Add(offset(9), Pow2(63, U128)).val
             nine_byte_max == Sub(Pow2(64, U128), Lit(1, U128)).val
         IN  IF Leq(nine_byte_min, n) /\ Leq(n, nine_byte_max) THEN 9
             ELSE IF Less(n, offset(11)) THEN 10
             ELSE IF Less(n, offset(12)) THEN 11
             ELSE IF Less(n, offset(13)) THEN 12
             ELSE IF Less(n, offset(14)) THEN 13
             ELSE IF Less(n, offset(15)) THEN 14
             ELSE IF Less(n, offset(16)) THEN 15
             ELSE IF Less(n, offset(17)) THEN 16
             ELSE 18

encode_len_vu128(n) ==
    IF Less(n, offset(2)) THEN 1
    ELSE IF Less(n, offset(3)) THEN 2
    ELSE IF Less(n, offset(4)) THEN 3
    ELSE IF Less(n, offset(5)) THEN 4
    ELSE IF Less(n, offset(6)) THEN 5
    ELSE IF Less(n, offset(7)) THEN 6
    ELSE IF Less(n, offset(8)) THEN 7
    ELSE IF Less(n, offset(9)) THEN 8
    ELSE LET nine_byte_min == Add(offset(9), Pow2(63, U128)).val
             nine_byte_max == Add(offset(9), Sub(Pow2(64, U128), Lit(1, U128)).val).val
         IN  IF Leq(nine_byte_min, n) /\ Leq(n, nine_byte_max) THEN 9
             ELSE IF Less(n, offset(11)) THEN 10
             ELSE IF Less(n, offset(12)) THEN 11
             ELSE IF Less(n, offset(13)) THEN 12
             ELSE IF Less(n, offset(14)) THEN 13
             ELSE IF Less(n, offset(15)) THEN 14
             ELSE IF Less(n, offset(16)) THEN 15
             ELSE IF Less(n, offset(17)) THEN 16
             ELSE 18

\* decode_len_vu128 without the arm for a zero second byte
decode_len_vu128_no_raw(first, second) ==
    LET base_len == leading_zeros(first) + 1
    IN  IF base_len < 9 THEN base_len
        ELSE IF second >= 128 THEN 9
        ELSE 9 + leading_zeros(second)

\* decode_len_vu128 with the extended tiers counted from 10
decode_len_vu128_base10(first, second) ==
    LET base_len == leading_zeros(first) + 1
    IN  IF base_len < 9 THEN base_len
        ELSE IF second >= 128 THEN 9
        ELSE IF second = 0 THEN 18
        ELSE 10 + leading_zeros(second)

decode_len_vu128(first, second) ==
    LET base_len == leading_zeros(first) + 1
    IN  IF base_len < 9 THEN base_len
        ELSE IF second >= 128 THEN 9
        ELSE IF second = 0 THEN 18
        ELSE 9 + leading_zeros(second)

\* encode_vu128_word with the 6-byte arm shifted like the 5-byte arm
encode_vu128_word_shift6(len, n) ==
    LET d == Sub(n, offset(len))
    IN  [val |-> CASE len = 2 -> Cast(d.val, U16)
                   [] len = 3 -> Shl(Cast(d.val, U32), 8)
                   [] len = 4 -> Cast(d.val, U32)
                   [] len = 5 -> Shl(Cast(d.val, U64), 8 * 3)
                   [] len = 6 -> Shl(Cast(d.val, U64), 8 * 3)
                   [] len = 7 -> Shl(Cast(d.val, U64), 8)
                   [] len = 8 -> Cast(d.val, U64),
         ovf |-> d.ovf]

\* arms 2..8 of encode_vu128: the rebased value in the arm's word
encode_vu128_word(len, n) ==
    LET d == Sub(n, offset(len))
    IN  [val |-> CASE len = 2 -> Cast(d.val, U16)
                   [] len = 3 -> Shl(Cast(d.val, U32), 8)
                   [] len = 4 -> Cast(d.val, U32)
                   [] len = 5 -> Shl(Cast(d.val, U64), 8 * 3)
                   [] len = 6 -> Shl(Cast(d.val, U64), 8 * 2)
                   [] len = 7 -> Shl(Cast(d.val, U64), 8)
                   [] len = 8 -> Cast(d.val, U64),
         ovf |-> d.ovf]

\* encode_vu128: the 18-byte buffer, and whether a checked operation overflowed
encode_vu128(n) ==
    LET len == encode_len_vu128(n)
        out_buf == [i \in 0..(VU128_BUF_SIZE - 1) |-> 0]
    IN  IF len = 1
        THEN [bytes |-> [out_buf EXCEPT ![0] = prefix(1, AsU8(n))], ovf |-> FALSE]
        ELSE IF len \in 2..8
        THEN LET e == encode_vu128_word(len, n)
                 buf == to_be_bytes(e.val)
             IN  [bytes |-> [i \in 0..(VU128_BUF_SIZE - 1) |->
                                IF i = 0 THEN prefix(len, buf[0])
                                ELSE IF i < len THEN buf[i]
                                ELSE 0],
                  ovf |-> e.ovf]
        ELSE IF len = 9
        THEN LET d == Sub(n, offset(9))
                 buf == to_be_bytes(Cast(d.val, U64))
             IN  [bytes |-> [i \in 0..(VU128_BUF_SIZE - 1) |->
                                IF i = 0 THEN 0
                                ELSE IF i <= 8 THEN buf[i - 1]
                                ELSE 0],
                  ovf |-> d.ovf]
        ELSE IF len \in 10..16
        THEN \* arm len: byte 1 takes prefix!(len-8, buf[17-len]),
             \* bytes 2..len-1 take buf[i + 16 - len]
             LET d == Sub(n, offset(len))
                 buf == to_be_bytes(d.val)
             IN  [bytes |-> [i \in 0..(VU128_BUF_SIZE - 1) |->
                                IF i = 0 THEN 0
                                ELSE IF i = 1 THEN prefix(len - 8, buf[17 - len])
                                ELSE IF i < len THEN buf[i + 16 - len]
                                ELSE 0],
                  ovf |-> d.ovf]
        ELSE LET buf == to_be_bytes(n)
             IN  [bytes |-> [i \in 0..(VU128_BUF_SIZE - 1) |->
                                IF i < 2 THEN 0 ELSE buf[i - 2]],
                  ovf |-> FALSE]

\* Vu128::len
Vu128_len(b) == decode_len_vu128(b[0], b[1])

\* the little-endian byte list of an extended-tier decode arm (len 10..16):
\* bytes len-1..2, then the unprefixed second byte, then zero fill
ExtendedArm(b, len) ==
    [j \in 1..16 |->
        IF j < len - 1 THEN b[len - j]
        ELSE IF j = len - 1 THEN unprefix(len - 8, b[1])
        ELSE 0]

\* decode_vu128: the value, and whether a checked addition overflowed
decode_vu128(n) ==
    LET len == Vu128_len(n)
    IN  IF len = 1 THEN [val |-> Lit(unprefix(1, n[0]), U128), ovf |-> FALSE]
        ELSE IF len \in 2..8
        THEN Add(from_le_bytes(MarkerArm(n, len, 16)), offset(len))
        ELSE IF len = 9
        THEN Add(from_le_bytes(<<n[8], n[7], n[6], n[5], n[4], n[3], n[2], n[1],
                                 0, 0, 0, 0, 0, 0, 0, 0>>), offset(9))
        ELSE IF len \in 10..16
        THEN Add(from_le_bytes(ExtendedArm(n, len)), offset(len))
        ELSE [val |-> from_le_bytes(<<n[17], n[16], n[15], n[14], n[13], n[12], n[11], n[10],
                                      n[9], n[8], n[7], n[6], n[5], n[4], n[3], n[2]>>),
              ovf |-> FALSE]

\* Vu128::as_slice returning the whole buffer
Vu128_as_slice_whole(b) == [i \in 1..VU128_BUF_SIZE |-> b[i - 1]]

\* Vu128::as_slice
Vu128_as_slice(b) == [i \in 1..Vu128_len(b) |-> b[i - 1]]

\* ------------------------------------------------------------------------
\* vi32.rs, vi64.rs, vi128.rs: zigzag over two's-complement words
\* ------------------------------------------------------------------------
RECURSIVE XorBits(_, _, _)
XorBits(a, b, k) ==
    IF k = 0 THEN 0
    ELSE ((a + b) % 2) + 2 * XorBits(a \div 2, b \div 2, k - 1)

\* `a ^ b`
Xor(a0, b0) ==
    CHOOSE r \in {[i \in 1..Len(a) |-> XorBits(a[i], b[i], 16)] : a \in {a0}, b \in {b0}} : TRUE

\* `!a`
Not(a0) == CHOOSE r \in {[i \in 1..Len(a) |-> Limb - 1 - a[i]] : a \in {a0}} : TRUE

IsNegative(a) == a[Len(a)] >= Limb \div 2

\* sign-propagating `a >> k` of a signed word
Sar(a0, k) ==
    CHOOSE r \in {IF IsNegative(a) THEN Not(Shr(Not(a), k)) ELSE Shr(a, k) : a \in {a0}} : TRUE

\* `-a` of a signed word (a is 0 or 1 where the source negates)
Neg(a0) == CHOOSE r \in {Sub(Zero(Len(a)), a).val : a \in {a0}} : TRUE

\* `a & 1`
And1(a0) == CHOOSE r \in {Lit(a[1] % 2, Len(a)) : a \in {a0}} : TRUE

\* zigzag_encode without the left shift that makes room for the sign
zigzag_encode_no_shift(n0) ==
    CHOOSE r \in {Xor(n, Sar(n, 16 * Len(n) - 1)) : n \in {n0}} : TRUE

\* zigzag_encode with the sign shifted down one place short (n >> (W-2))
zigzag_encode_short_sar(n0) ==
    CHOOSE r \in {Xor(Shl(n, 1), Sar(n, 16 * Len(n) - 2)) : n \in {n0}} : TRUE

\* zigzag_encode with a logical instead of a sign-propagating right shift
zigzag_encode_logical(n0) ==
    CHOOSE r \in {Xor(Shl(n, 1), Shr(n, 16 * Len(n) - 1)) : n \in {n0}} : TRUE

\* zigzag_encode_iW: ((n << 1) ^ (n >> (W-1))) as uW
zigzag_encode(n0) ==
    CHOOSE r \in {Xor(Shl(n, 1), Sar(n, 16 * Len(n) - 1)) : n \in {n0}} : TRUE

\* zigzag_decode without the negation of the low bit
zigzag_decode_no_neg(n0) ==
    CHOOSE r \in {Xor(Shr(n, 1), And1(n)) : n \in {n0}} : TRUE

\* zigzag_decode_iW: ((n >> 1) as iW) ^ -((n & 1) as iW)
zigzag_decode(n0) ==
    CHOOSE r \in {Xor(Shr(n, 1), Neg(And1(n))) : n \in {n0}} : TRUE

encode_vi32(n) == encode_vu32(zigzag_encode(n))

decode_vi32(b) ==
    LET u == decode_vu32(b)
    IN  [val |-> zigzag_decode(u.val), ovf |-> u.ovf]

encode_vi64(n) == encode_vu64(zigzag_encode(n))

decode_vi64(b) ==
    LET u == decode_vu64(b)
    IN  [val |-> zigzag_decode(u.val), ovf |-> u.ovf]

encode_vi128(n) == encode_vu128(zigzag_encode(n))

decode_vi128(b) ==
    LET u == decode_vu128(b)
    IN  [val |-> zigzag_decode(u.val), ovf |-> u.ovf]

\* ------------------------------------------------------------------------
\* the six classes
\* ------------------------------------------------------------------------
\* the unsigned value the encoder of class c is handed for x
Magnitude(c, v) == IF c \in {"vi32", "vi64", "vi128"} THEN zigzag_encode(v) ELSE v

\* the tier the encoder of class c chooses for x
EncodeLen(c, v) ==
    CASE c \in {"vu32", "vi32"} -> encode_len_vu32(Magnitude(c, v))
      [] c \in {"vu64", "vi64"} -> encode_len_vu64(Magnitude(c, v))
      [] c \in {"vu128", "vi128"} -> encode_len_vu128(Magnitude(c, v))

\* the length the header of buffer b announces in class c
HeaderLen(c, b) ==
    CASE c \in {"vu32", "vi32"} -> Vu32_len(b)
      [] c \in {"vu64", "vi64"} -> Vu64_len(b)
      [] c \in {"vu128", "vi128"} -> Vu128_len(b)

EncodeOf(c, v) ==
    CASE c = "vu32" -> encode_vu32(v)
      [] c = "vi32" -> encode_vi32(v)
      [] c = "vu64" -> encode_vu64(v)
      [] c = "vi64" -> encode_vi64(v)
      [] c = "vu128" -> encode_vu128(v)
      [] c = "vi128" -> encode_vi128(v)

DecodeOf(c, b) ==
    CASE c = "vu32" -> decode_vu32(b)
      [] c = "vi32" -> decode_vi32(b)
      [] c = "vu64" -> decode_vu64(b)
      [] c = "vi64" -> decode_vi64(b)
      [] c = "vu128" -> decode_vu128(b)
      [] c = "vi128" -> decode_vi128(b)

\* ------------------------------------------------------------------------
\* Inputs
\* ------------------------------------------------------------------------
MaxDelta == 2

Builds == {"debug", "release"}

Classes == {"vu32", "vi32", "vu64", "vi64", "vu128", "vi128"}

Width(c) ==
    CASE c \in {"vu32", "vi32"} -> U32
      [] c \in {"vu64", "vi64"} -> U64
      [] c \in {"vu128", "vi128"} -> U128

\* the values b-MaxDelta .. b+MaxDelta, wrapping at the width of b
Around(b) ==
    {Add(b, Lit(d, Len(b))).val : d \in 0..MaxDelta}
        \cup {Sub(b, Lit(d, Len(b))).val : d \in 1..MaxDelta}

\* a word whose sixteen bytes are all different
Pattern ==
    from_le_bytes(<<16, 50, 84, 118, 152, 186, 220, 254, 1, 35, 69, 103, 137, 171, 205, 239>>)

\* 0 (and so MAX, by wrapping), every tier boundary that fits the width,
\* the middle of each extended tier, 2^(W-1), 2^32 and 2^64
Bases(w) ==
    {Cast(offset(L), w) : L \in {L \in 1..17 : OffsetShift[L] < 16 * w}}
        \cup {Pow2(16 * w - 1, w), Pow2(16 * w - 2, w), Pow2(16, w)}
        \cup (IF w >= U64 THEN {Pow2(32, w)} ELSE {})
        \cup (IF w = U128
              THEN {Add(offset(9), Pow2(63, w)).val, Pow2(64, w)}
                       \cup {Add(offset(L), Pow2(OffsetShift[L + 1] - 1, w)).val : L \in 10..16}
              ELSE {})

Unsigned(w) ==
    UNION {Around(b) : b \in Bases(w)}
        \cup {Shr(Cast(Shr(Pattern, 128 - 16 * w), w), k) : k \in 0..(16 * w - 1)}

\* every unsigned sample read as a two's-complement word, and the words
\* whose zigzag image is an unsigned sample
Signed(w) ==
    Unsigned(w) \cup {Shr(u, 1) : u \in Unsigned(w)} \cup {Not(Shr(u, 1)) : u \in Unsigned(w)}

Inputs(c) == IF c \in {"vu32", "vu64", "vu128"} THEN Unsigned(Width(c)) ELSE Signed(Width(c))

NoBuf == <<>>
NoVal == <<>>

\* ------------------------------------------------------------------------
\* encode then decode of one value
\* ------------------------------------------------------------------------
Init ==
    /\ build \in Builds
    /\ cls \in Classes
    /\ x \in Inputs(cls)
    /\ pc = "start"
    /\ enc = NoBuf
    /\ out = NoVal
    /\ stream = <<>>
    /\ sent = <<>>
    /\ recv = <<>>

\* a call of an encoder: a checked overflow panics in a debug build and
\* wraps in a release build
Encoded(r) ==
    /\ pc = "start"
    /\ IF r.ovf /\ build = "debug"
       THEN pc' = "encode_panic" /\ enc' = enc
       ELSE pc' = "encoded" /\ enc' = r.bytes
    /\ UNCHANGED <<build, cls, x, out, streamVars>>

\* a call of a decoder on the buffer
Decoded(r) ==
    /\ pc = "encoded"
    /\ IF r.ovf /\ build = "debug"
       THEN pc' = "decode_panic" /\ out' = out
       ELSE pc' = "decoded" /\ out' = r.val
    /\ UNCHANGED <<build, cls, x, enc, streamVars>>

EncodeVu32 == cls = "vu32" /\ Encoded(encode_vu32(x))
EncodeVi32 == cls = "vi32" /\ Encoded(encode_vi32(x))
EncodeVu64 == cls = "vu64" /\ Encoded(encode_vu64(x))
EncodeVi64 == cls = "vi64" /\ Encoded(encode_vi64(x))
EncodeVu128 == cls = "vu128" /\ Encoded(encode_vu128(x))
EncodeVi128 == cls = "vi128" /\ Encoded(encode_vi128(x))

DecodeVu32 == cls = "vu32" /\ Decoded(decode_vu32(enc))
DecodeVi32 == cls = "vi32" /\ Decoded(decode_vi32(enc))
DecodeVu64 == cls = "vu64" /\ Decoded(decode_vu64(enc))
DecodeVi64 == cls = "vi64" /\ Decoded(decode_vi64(enc))
DecodeVu128 == cls = "vu128" /\ Decoded(decode_vu128(enc))
DecodeVi128 == cls = "vi128" /\ Decoded(decode_vi128(enc))

Next ==
    \/ EncodeVu32
    \/ EncodeVi32
    \/ EncodeVu64
    \/ EncodeVi64
    \/ EncodeVu128
    \/ EncodeVi128
    \/ DecodeVu32
    \/ DecodeVi32
    \/ DecodeVu64
    \/ DecodeVi64
    \/ DecodeVu128
    \/ DecodeVi128

Spec == Init /\ [][Next]_vars

\* ------------------------------------------------------------------------
\* decode of a buffer that did not come from encode (filled from a stream)
\* ------------------------------------------------------------------------
BufSize(c) ==
    CASE c \in {"vu32", "vi32"} -> VU32_BUF_SIZE
      [] c \in {"vu64", "vi64"} -> VU64_BUF_SIZE
      [] c \in {"vu128", "vi128"} -> VU128_BUF_SIZE

\* every marker position, and every marker with all payload bits set
HeaderBytes == {0} \cup {2 ^ k : k \in 0..7} \cup {2 ^ k - 1 : k \in 1..8}

FillBytes == {0, 165, 255}

Buffers(c) ==
    {[i \in 0..(BufSize(c) - 1) |-> IF i = 0 THEN h0 ELSE IF i = 1 THEN h1 ELSE f] :
        h0 \in HeaderBytes, h1 \in HeaderBytes, f \in FillBytes}

InitDecode ==
    /\ build \in Builds
    /\ cls \in {"vu32", "vu64", "vu128"}
    /\ x = NoVal
    /\ pc = "encoded"
    /\ enc \in Buffers(cls)
    /\ out = NoVal
    /\ stream = <<>>
    /\ sent = <<>>
    /\ recv = <<>>

NextDecode ==
    \/ DecodeVu32
    \/ DecodeVu64
    \/ DecodeVu128

SpecDecode == InitDecode /\ [][NextDecode]_vars

\* ------------------------------------------------------------------------
\* lib.rs: ReadVlqExt / WriteVlqExt over a byte stream
\* ------------------------------------------------------------------------
MaxValues == 2

\* Read::read_exact(&mut buf[lo..hi]) on a reader holding the bytes s: fills
\* the range from the front of s, or fails when s ends first
read_exact(r, lo, hi) ==
    IF ~r.ok THEN r
    ELSE IF Len(r.rest) >= hi - lo
    THEN [ok |-> TRUE,
          buf |-> [i \in DOMAIN r.buf |->
                      IF i >= lo /\ i < hi THEN r.rest[i - lo + 1] ELSE r.buf[i]],
          rest |-> SubSeq(r.rest, hi - lo + 1, Len(r.rest)),
          reads |-> Append(r.reads, <<lo, hi>>)]
    ELSE [ok |-> FALSE, buf |-> r.buf, rest |-> <<>>,
          reads |-> Append(r.reads, <<lo, hi>>)]

\* the reader before its first read: a zeroed buffer of n bytes
Fresh(s, n) == [ok |-> TRUE, buf |-> [i \in 0..(n - 1) |-> 0], rest |-> s, reads |-> <<>>]

\* read_vu32 that skips the body read of a 2-byte value
read_vu32_skip_body(s) ==
    LET r1 == read_exact(Fresh(s, VU32_BUF_SIZE), 0, 1)
        len == decode_len_vu32(r1.buf[0])
    IN  IF r1.ok /\ len > 2 THEN read_exact(r1, 1, len) ELSE r1

\* ReadVlqExt::read_vu32 up to the decode call
read_vu32(s) ==
    LET r1 == read_exact(Fresh(s, VU32_BUF_SIZE), 0, 1)
        len == decode_len_vu32(r1.buf[0])
    IN  IF r1.ok /\ len > 1 THEN read_exact(r1, 1, len) ELSE r1

\* ReadVlqExt::read_vu64 up to the decode call
read_vu64(s) ==
    LET r1 == read_exact(Fresh(s, VU64_BUF_SIZE), 0, 1)
        len == decode_len_vu64(r1.buf[0])
    IN  IF r1.ok /\ len > 1 THEN read_exact(r1, 1, len) ELSE r1

\* ReadVlqExt::read_vu128 up to the decode call
read_vu128(s) ==
    LET r1 == read_exact(Fresh(s, VU128_BUF_SIZE), 0, 1)
        r2 == IF r1.ok /\ r1.buf[0] = 0 THEN read_exact(r1, 1, 2) ELSE r1
        len == decode_len_vu128(r2.buf[0], r2.buf[1])
    IN  IF ~r2.ok THEN r2
        ELSE IF len > 2 THEN read_exact(r2, 2, len)
        ELSE IF len = 2 /\ r2.buf[0] # 0 THEN read_exact(r2, 1, 2)
        ELSE r2

\* the read and the decode of class c on the stream s
ReadOf(c, s) ==
    CASE c \in {"vu32", "vi32"} -> read_vu32(s)
      [] c \in {"vu64", "vi64"} -> read_vu64(s)
      [] c \in {"vu128", "vi128"} -> read_vu128(s)

\* WriteVlqExt::write_*: the slice handed to write_all
SliceOf(c, b) ==
    CASE c \in {"vu32", "vi32"} -> Vu32_as_slice(b)
      [] c \in {"vu64", "vi64"} -> Vu64_as_slice(b)
      [] c \in {"vu128", "vi128"} -> Vu128_as_slice(b)

\* one value at each end of every tier of the class
StreamUnsigned(w) ==
    {Cast(offset(L), w) : L \in {L \in 1..17 : OffsetShift[L] < 16 * w}}
        \cup {Sub(Cast(offset(L), w), Lit(1, w)).val : L \in {L \in 1..17 : OffsetShift[L] < 16 * w}}
        \cup (IF w = U128 THEN {Add(offset(9), Pow2(63, w)).val} ELSE {})

\* MIN, -1 and 300
StreamSigned(w) == {Pow2(16 * w - 1, w), Sub(Zero(w), Lit(1, w)).val, Lit(300, w)}

StreamInputs(c) ==
    IF c \in {"vu32", "vu64", "vu128"} THEN StreamUnsigned(Width(c)) ELSE StreamSigned(Width(c))

InitStream ==
    /\ build \in Builds
    /\ cls = "stream"
    /\ x = NoVal
    /\ pc = "run"
    /\ enc = NoBuf
    /\ out = NoVal
    /\ stream = <<>>
    /\ sent = <<>>
    /\ recv = <<>>

\* write_*(v) of class c: one encode, one write_all of the slice
Written(c, v) ==
    /\ pc = "run"
    /\ LET e == EncodeOf(c, v)
       IN  IF e.ovf /\ build = "debug"
           THEN pc' = "write_panic" /\ UNCHANGED streamVars
           ELSE /\ stream' = stream \o SliceOf(c, e.bytes)
                /\ sent' = Append(sent, [cls |-> c, x |-> v])
                /\ UNCHANGED <<pc, recv>>
    /\ UNCHANGED <<build, codecVars>>

\* read_* of class c: the reads, then one decode of the buffer
Returned(c) ==
    /\ pc = "run"
    /\ LET r == ReadOf(c, stream)
           d == DecodeOf(c, r.buf)
       IN  IF ~r.ok
           THEN /\ recv' = Append(recv, [ok |-> FALSE, val |-> NoVal])
                /\ stream' = r.rest
                /\ UNCHANGED pc
           ELSE IF d.ovf /\ build = "debug"
           THEN pc' = "read_panic" /\ stream' = r.rest /\ UNCHANGED recv
           ELSE /\ recv' = Append(recv, [ok |-> TRUE, val |-> d.val])
                /\ stream' = r.rest
                /\ UNCHANGED pc
    /\ UNCHANGED <<build, codecVars, sent>>

\* the class of the next value the reading side expects
NextClass == IF Len(recv) < Len(sent) THEN sent[Len(recv) + 1].cls ELSE "none"

\* a caller writes at most MaxValues values, each drawn from the inputs of its class
WriteVu32 == Len(sent) < MaxValues /\ \E v \in StreamInputs("vu32") : Written("vu32", v)
WriteVi32 == Len(sent) < MaxValues /\ \E v \in StreamInputs("vi32") : Written("vi32", v)
WriteVu64 == Len(sent) < MaxValues /\ \E v \in StreamInputs("vu64") : Written("vu64", v)
WriteVi64 == Len(sent) < MaxValues /\ \E v \in StreamInputs("vi64") : Written("vi64", v)
WriteVu128 == Len(sent) < MaxValues /\ \E v \in StreamInputs("vu128") : Written("vu128", v)
WriteVi128 == Len(sent) < MaxValues /\ \E v \in StreamInputs("vi128") : Written("vi128", v)

ReadVu32 == NextClass = "vu32" /\ Returned("vu32")
ReadVi32 == NextClass = "vi32" /\ Returned("vi32")
ReadVu64 == NextClass = "vu64" /\ Returned("vu64")
ReadVi64 == NextClass = "vi64" /\ Returned("vi64")
ReadVu128 == NextClass = "vu128" /\ Returned("vu128")
ReadVi128 == NextClass = "vi128" /\ Returned("vi128")

NextStream ==
    \/ WriteVu32
    \/ WriteVi32
    \/ WriteVu64
    \/ WriteVi64
    \/ ReadVu32
    \/ ReadVi32
    \/ ReadVu64
    \/ ReadVi64

SpecStream == InitStream /\ [][NextStream]_vars

NextStream128 ==
    \/ WriteVu128
    \/ WriteVi128
    \/ ReadVu128
    \/ ReadVi128

SpecStream128 == InitStream /\ [][NextStream128]_vars

\* ------------------------------------------------------------------------
\* Properties
\* ------------------------------------------------------------------------
Finished == pc \in {"decoded", "encode_panic", "decode_panic"}

RoundTrips == pc = "decoded" /\ out = x

HasBuffer == pc \in {"encoded", "decoded", "decode_panic"}

U32Max == Sub(Zero(U32), Lit(1, U32)).val
U64Max == Sub(Zero(U64), Lit(1, U64)).val
U128Max == Sub(Zero(U128), Lit(1, U128)).val

\* C1: every u64 x, once encoded by encode_vu64 and decoded by decode_vu64,
\* comes back as x, without a panic on the way
C1_RoundTripVu64 == (cls = "vu64" /\ Finished) => RoundTrips

C1_Witness == cls = "vu64" /\ pc = "decoded" /\ x = U64Max /\ out = U64Max /\ enc[0] = 0

\* C2: every u128 x, in every tier, comes back as x from
\* decode_vu128(encode_vu128(x)), without a panic on the way
C2_RoundTripVu128 == (cls = "vu128" /\ Finished) => RoundTrips

\* C3: every u32 x comes back as x from decode_vu32(encode_vu32(x)),
\* the 5-byte tier up to u32::MAX included
C3_RoundTripVu32 == (cls = "vu32" /\ Finished) => RoundTrips

C3_Witness ==
    cls = "vu32" /\ pc = "decoded" /\ x = U32Max /\ out = U32Max /\ Vu32_len(enc) = 5

\* C4: every i32 x comes back as x from decode_vi32(encode_vi32(x)) and every
\* i64 x from decode_vi64(encode_vi64(x)), MIN and MAX included
C4_RoundTripVi32Vi64 == (cls \in {"vi32", "vi64"} /\ Finished) => RoundTrips

C4_Witness ==
    cls = "vi64" /\ pc = "decoded" /\ x = Pow2(63, U64) /\ out = x /\ Vu64_len(enc) = 9

\* C5: every i128 x comes back as x from decode_vi128(encode_vi128(x)),
\* whatever tier its zigzag image falls in
C5_RoundTripVi128 == (cls = "vi128" /\ Finished) => RoundTrips

\* C8: the length read off the first byte (first two bytes, 128-bit) of a
\* buffer produced by encode equals the tier the encoder chose for x
C8_HeaderDeterminism == HasBuffer => HeaderLen(cls, enc) = EncodeLen(cls, x)

C8_Witness ==
    cls = "vu128" /\ pc = "encoded" /\ EncodeLen(cls, x) = 13 /\ enc[0] = 0 /\ enc[1] \in 8..15

\* C9: encode never fails: no subtraction value - offset(L) underflows and
\* no other checked operation of an encoder overflows
C9_EncodeTotal == pc # "encode_panic" /\ (HasBuffer => ~EncodeOf(cls, x).ovf)

\* C10: decode never fails on any buffer content: payload + offset(L) never
\* exceeds the maximum of the class
C10_DecodeTotal == pc # "decode_panic" /\ (pc = "decoded" => ~DecodeOf(cls, enc).ovf)

\* every result returned so far is the value written at the same position
ReadsMatch == \A i \in 1..Len(recv) : recv[i].ok /\ recv[i].val = sent[i].x

\* once as many values are read as were written, no byte is left over
FullyConsumed == Len(recv) = Len(sent) => stream = <<>>

\* C6: values written in order with write_vu32 / write_vi32 / write_vu64 /
\* write_vi64 are returned in order by the matching read_* calls, and the
\* stream is then fully consumed
C6_StreamRoundTrip == pc = "run" /\ ReadsMatch /\ FullyConsumed

C6_Witness ==
    /\ Len(sent) = 2 /\ Len(recv) = 2 /\ stream = <<>>
    /\ sent[1].cls = "vu64" /\ sent[1].x = Cast(offset(9), U64) /\ recv[1].val = sent[1].x
    /\ sent[2].cls = "vi32" /\ sent[2].x = Pow2(31, U32) /\ recv[2].val = sent[2].x

\* C7: values written in order with write_vu128 / write_vi128 are returned
\* in order by read_vu128 / read_vi128, whatever their encoded length, and
\* the stream is then fully consumed
C7_StreamRoundTrip128 == pc # "read_panic" /\ FullyConsumed /\ ReadsMatch

\* the hand-built buffer of the crate documentation: 0b0100_0000 0b0000_0001
IsTwoByteOne == enc[0] = 64 /\ enc[1] = 1

\* C11: the 2-byte buffer 0b0100_0000 0b0000_0001 decodes to 1 in each
\* unsigned class, the same value as the 1-byte form 0b1000_0001
C11_NonCanonicalOne ==
    (pc = "decoded" /\ cls \in {"vu32", "vu64", "vu128"} /\ IsTwoByteOne)
        => out = Lit(1, Width(cls))

SignedClasses == {"vi32", "vi64", "vi128"}

\* the two's-complement word of -k at the width of class c
Minus(k, c) == Neg(Lit(k, Width(c)))

\* zigzag_encode(0)=0, (-1)=1, (1)=2, (-2)=3, (2)=4 where x is one of the five
ZigzagTable ==
    /\ x = Lit(0, Width(cls)) => zigzag_encode(x) = Lit(0, Width(cls))
    /\ x = Minus(1, cls) => zigzag_encode(x) = Lit(1, Width(cls))
    /\ x = Lit(1, Width(cls)) => zigzag_encode(x) = Lit(2, Width(cls))
    /\ x = Minus(2, cls) => zigzag_encode(x) = Lit(3, Width(cls))
    /\ x = Lit(2, Width(cls)) => zigzag_encode(x) = Lit(4, Width(cls))

\* C12: at each width zigzag_decode(zigzag_encode(x)) = x for every signed
\* word x, MIN and MAX included, zigzag_encode maps 0, -1, 1, -2, 2 to
\* 0, 1, 2, 3, 4, and zigzag_encode(zigzag_decode(u)) = u for every
\* unsigned word u
C12_ZigzagBijection ==
    cls \in SignedClasses =>
        /\ zigzag_decode(zigzag_encode(x)) = x
        /\ zigzag_encode(zigzag_decode(x)) = x
        /\ ZigzagTable

C12_Witness ==
    /\ cls = "vi128" /\ pc = "decoded"
    /\ x = Pow2(127, U128) /\ zigzag_encode(x) = U128Max /\ out = x

\* the tier maxima 0x7F, 0x407F, 0x20_407F, 0x1020_407F, 0x8_1020_407F,
\* 0x408_1020_407F, 0x2_0408_1020_407F, 0x102_0408_1020_407F
TierMax ==
    <<<<127, 0, 0, 0>>, <<16511, 0, 0, 0>>, <<16511, 32, 0, 0>>, <<16511, 4128, 0, 0>>,
      <<16511, 4128, 8, 0>>, <<16511, 4128, 1032, 0>>, <<16511, 4128, 1032, 2>>,
      <<16511, 4128, 1032, 258>>>>

\* the L in 1..9 with offset(L) <= v < offset(L+1), 9 above the last maximum
TierOf(v) ==
    IF \E L \in 1..8 : Leq(Cast(v, U64), TierMax[L])
    THEN CHOOSE L \in 1..8 :
             /\ Leq(Cast(v, U64), TierMax[L])
             /\ \A K \in 1..(L - 1) : Less(TierMax[K], Cast(v, U64))
    ELSE 9

\* offset(1) = 0, offset(L+1) = offset(L) + 2^(7L), and each maximum is
\* offset(L+1) - 1
TierRecurrence ==
    /\ offset(1) = Zero(U128)
    /\ \A L \in 1..8 :
           /\ offset(L + 1) = Add(offset(L), Pow2(7 * L, U128)).val
           /\ Cast(offset(L + 1), U64) = Add(TierMax[L], Lit(1, U64)).val

Min2(a, b) == IF a < b THEN a ELSE b

\* C13: encode_vu64(x).len() is the L in 1..9 with offset(L) <= x <
\* offset(L+1) (9 from offset(9) on), the tier maxima being 0x7F .. 
\* 0x102_0408_1020_407F, and encode_vu32(x).len() is that L capped at 5
C13_Minimality ==
    /\ (cls = "vu64" /\ HasBuffer) => Vu64_len(enc) = TierOf(x) /\ TierRecurrence
    /\ (cls = "vu32" /\ HasBuffer) => Vu32_len(enc) = Min2(TierOf(x), 5)

C13_Witness ==
    /\ cls = "vu64" /\ pc = "encoded"
    /\ x = Cast(offset(9), U64) /\ TierOf(x) = 9 /\ Vu64_len(enc) = 9

UnsignedClasses == {"vu32", "vu64", "vu128"}

\* no smaller input of the class of x has a longer encoding than the buffer
\* encode returned for x
NoSmallerIsLonger ==
    \A y \in Inputs(cls) : Less(y, x) => EncodeLen(cls, y) <= HeaderLen(cls, enc)

\* C14: in each unsigned class, for all x1 < x2 the encoded length of x1 is
\* less than or equal to the encoded length of x2
C14_LengthMonotone == (cls \in UnsignedClasses /\ HasBuffer) => NoSmallerIsLonger

\* x is v, its encode and decode have run, and the value came back
CameBack(v) == x = v => pc = "decoded" /\ out = x

Announced(c, s) ==
    CASE c \in {"vu32", "vi32"} -> decode_len_vu32(s[1])
      [] c \in {"vu64", "vi64"} -> decode_len_vu64(s[1])
      [] c \in {"vu128", "vi128"} -> decode_len_vu128(s[1], IF Len(s) >= 2 THEN s[2] ELSE 0)

\* this step is a read_* call that returned a value
ReadReturns == Len(recv') = Len(recv) + 1 /\ recv'[Len(recv')].ok

\* the call took the n announced bytes off the stream and decoded a buffer
\* holding stream byte i at index i for every i < n
ConsumesAnnounced ==
    LET n == Announced(NextClass, stream)
        r == ReadOf(NextClass, stream)
    IN  /\ stream' = SubSeq(stream, n + 1, Len(stream))
        /\ \A i \in 0..(n - 1) : r.buf[i] = stream[i + 1]

\* C16: a successful read_* call consumes exactly the n consecutive bytes
\* its header byte(s) announce and stores stream byte i at buffer index i
\* for all 0 <= i < n before decode, leaving the stream at the next value
C16_ExactConsumption == [][ReadReturns => ConsumesAnnounced]_vars

\* ------------------------------------------------------------------------
\* a reader on a stream that ends inside (or right after) the one value
\* written to it
\* ------------------------------------------------------------------------
InitShort ==
    /\ build \in Builds
    /\ cls = "stream"
    /\ x = NoVal
    /\ pc = "run"
    /\ enc = NoBuf
    /\ out = NoVal
    /\ recv = <<>>
    /\ \E c \in Classes : \E v \in StreamInputs(c) :
           LET e == EncodeOf(c, v)
               s == SliceOf(c, e.bytes)
           IN  /\ ~(e.ovf /\ build = "debug")
               /\ sent = <<[cls |-> c, x |-> v]>>
               /\ stream \in {SubSeq(s, 1, n) : n \in 0..Len(s)}

NextShort ==
    \/ ReadVu32
    \/ ReadVi32
    \/ ReadVu64
    \/ ReadVi64
    \/ ReadVu128
    \/ ReadVi128

SpecShort == InitShort /\ [][NextShort]_vars

\* the stream ends before the bytes its header announces (or before the header)
EndsEarly == stream = <<>> \/ Len(stream) < Announced(NextClass, stream)

\* this step is a read_* call that returned the I/O error, without a decode
ReadFails == Len(recv') = Len(recv) + 1 /\ ~recv'[Len(recv')].ok /\ pc' = pc

\* C17: when the stream ends before all n bytes announced by the header
\* byte(s) are available, read_* returns the I/O error and never a value,
\* and decode is not invoked; in particular for a 128-bit value cut short by
\* one byte
C17_ShortReadIsError == [][(NextClass # "none" /\ EndsEarly) => ReadFails]_vars

\* ------------------------------------------------------------------------
\* a writer that puts one value of any class on an empty stream
\* ------------------------------------------------------------------------
WriteOneVu32 == sent = <<>> /\ \E v \in StreamInputs("vu32") : Written("vu32", v)
WriteOneVi32 == sent = <<>> /\ \E v \in StreamInputs("vi32") : Written("vi32", v)
WriteOneVu64 == sent = <<>> /\ \E v \in StreamInputs("vu64") : Written("vu64", v)
WriteOneVi64 == sent = <<>> /\ \E v \in StreamInputs("vi64") : Written("vi64", v)
WriteOneVu128 == sent = <<>> /\ \E v \in StreamInputs("vu128") : Written("vu128", v)
WriteOneVi128 == sent = <<>> /\ \E v \in StreamInputs("vi128") : Written("vi128", v)

NextWriteOne ==
    \/ WriteOneVu32
    \/ WriteOneVi32
    \/ WriteOneVu64
    \/ WriteOneVi64
    \/ WriteOneVu128
    \/ WriteOneVi128

SpecWriteOne == InitStream /\ [][NextWriteOne]_vars

\* 5 / 9 / 18 bytes for the 32 / 64 / 128-bit class
MaxBytes(c) ==
    CASE c \in {"vu32", "vi32"} -> 5
      [] c \in {"vu64", "vi64"} -> 9
      [] c \in {"vu128", "vi128"} -> 18

\* the stream holds the first len bytes of the buffer encode returned for the
\* value written, len being what the buffer's header announces, and nothing else
EmitsUsedPrefix ==
    LET c == sent[1].cls
        b == EncodeOf(c, sent[1].x).bytes
        len == HeaderLen(c, b)
    IN  /\ Len(stream) = len
        /\ \A i \in 1..Len(stream) : stream[i] = b[i - 1]
        /\ len \in 1..MaxBytes(c)

\* C18: write_* performs one encode and writes exactly the used prefix of
\* the buffer (the first len bytes, len derived from the header), none of
\* the unused tail bytes; it writes between 1 and 5 / 9 / 18 bytes for the
\* 32 / 64 / 128-bit class
C18_ExactEmission == Len(sent) = 1 => EmitsUsedPrefix

C18_Witness ==
    /\ Len(sent) = 1 /\ sent[1].cls = "vu128" /\ sent[1].x = offset(13)
    /\ Len(stream) = 13 /\ stream[1] = 0 /\ stream[2] = 8

\* -64 <= v <= 63 for the signed word v
IsSmallSigned(v) ==
    \/ \E k \in 0..63 : v = Lit(k, Len(v))
    \/ \E k \in 1..64 : v = Neg(Lit(k, Len(v)))

\* C19: in each signed class encode_vi(x) has length 1 if and only if
\* -64 <= x <= 63, and the encodings of x and of -x-1 have the same length
C19_CompactEitherSign ==
    (cls \in SignedClasses /\ HasBuffer) =>
        /\ HeaderLen(cls, enc) = 1 <=> IsSmallSigned(x)
        /\ HeaderLen(cls, EncodeOf(cls, Not(x)).bytes) = HeaderLen(cls, enc)

C19_Witness ==
    /\ cls = "vi64" /\ pc = "encoded" /\ x = Neg(Lit(64, U64))
    /\ Vu64_len(enc) = 1 /\ Vu64_len(encode_vi64(Lit(63, U64)).bytes) = 1

\* 2v for v >= 0 and -2v-1 for v < 0, as an unsigned word of the width of v
TwiceOrMirror(v) ==
    IF IsNegative(v)
    THEN Sub(Neg(Add(v, v).val), Lit(1, Len(v))).val
    ELSE Add(v, v).val

IsEven(u) == u[1] % 2 = 0

\* C20: at each signed width zigzag_encode(x) is even exactly when x >= 0
\* and odd exactly when x < 0: it is 2x for x >= 0 and -2x-1 for x < 0, so
\* MIN maps to the unsigned maximum
C20_ZigzagParity ==
    cls \in SignedClasses =>
        /\ IsEven(zigzag_encode(x)) <=> ~IsNegative(x)
        /\ zigzag_encode(x) = TwiceOrMirror(x)

C20_Witness ==
    /\ cls = "vi32" /\ pc = "encoded"
    /\ x = Pow2(31, U32) /\ zigzag_encode(x) = U32Max /\ ~IsEven(zigzag_encode(x))

\* ------------------------------------------------------------------------
\* Vu32::len / Vu64::len / Vu128::len of a buffer with any header
\* ------------------------------------------------------------------------
Bytes == 0..255

\* the second bytes tried with leading byte h0: all of them where the
\* 128-bit header looks at the second byte
SecondBytes(c, h0) ==
    IF c = "vu128" THEN (IF h0 = 0 THEN Bytes ELSE HeaderBytes) ELSE {0, 255}

HeaderBuffers(c) ==
    {[i \in 0..(BufSize(c) - 1) |-> IF i = 0 THEN h[1] ELSE IF i = 1 THEN h[2] ELSE 0] :
        h \in UNION {{<<h0, h1>> : h1 \in SecondBytes(c, h0)} : h0 \in Bytes}}

InitHeader ==
    /\ build \in Builds
    /\ cls \in {"vu32", "vu64", "vu128"}
    /\ x = NoVal
    /\ pc = "header"
    /\ enc \in HeaderBuffers(cls)
    /\ out = NoVal
    /\ stream = <<>>
    /\ sent = <<>>
    /\ recv = <<>>

\* a call of len(): the u8 it returns is kept in out
Measured(len) ==
    /\ pc = "header"
    /\ pc' = "measured"
    /\ out' = Lit(len, U16)
    /\ UNCHANGED <<build, cls, x, enc, streamVars>>

LenVu32 == cls = "vu32" /\ Measured(Vu32_len(enc))
LenVu64 == cls = "vu64" /\ Measured(Vu64_len(enc))
LenVu128 == cls = "vu128" /\ Measured(Vu128_len(enc))

NextHeader ==
    \/ LenVu32
    \/ LenVu64
    \/ LenVu128

SpecHeader == InitHeader /\ [][NextHeader]_vars

\* the number of leading zero bits of byte b, from the ranges 0x80..0xFF,
\* 0x40..0x7F, .., 0x01, 0x00
LeadingZeroBits(b) ==
    IF b = 0 THEN 8 ELSE CHOOSE k \in 0..7 : 2 ^ (7 - k) <= b /\ b < 2 ^ (8 - k)

\* C21: for every byte b, decode_len_vu64(b) is the number of leading zero
\* bits of b plus 1 (1 for 0x80..0xFF, .., 8 for 0x01, 9 for 0x00), and
\* decode_len_vu32(b) is that value capped at 5 (5 for every b in 0x00..0x0F)
C21_DecodeLen3264 ==
    pc = "measured" =>
        /\ cls = "vu64" => out = Lit(LeadingZeroBits(enc[0]) + 1, U16)
        /\ cls = "vu32" => out = Lit(Min2(LeadingZeroBits(enc[0]) + 1, 5), U16)
        /\ (cls = "vu32" /\ enc[0] \in 0..15) => out = Lit(5, U16)

C21_Witness ==
    cls = "vu32" /\ pc = "measured" /\ enc[0] = 1 /\ enc[1] = 255 /\ out = Lit(5, U16)

\* C22: decode_len_vu128(first, second) is leading_zeros(first) + 1 (1..8,
\* whatever second is) when first # 0; when first = 0 it is 9 if second >=
\* 0x80, 9 + leading_zeros(second) (10..16) if second is in 0x01..0x7F, and
\* 18 if second = 0; the result is always in {1..16, 18}
C22_DecodeLen128 ==
    (pc = "measured" /\ cls = "vu128") =>
        /\ enc[0] # 0 =>
               out = Lit(LeadingZeroBits(enc[0]) + 1, U16) /\ out[1] \in 1..8
        /\ (enc[0] = 0 /\ enc[1] >= 128) => out = Lit(9, U16)
        /\ (enc[0] = 0 /\ enc[1] \in 1..127) =>
               out = Lit(9 + LeadingZeroBits(enc[1]), U16) /\ out[1] \in 10..16
        /\ (enc[0] = 0 /\ enc[1] = 0) => out = Lit(18, U16)
        /\ out[1] \in (1..16) \cup {18}
        /\ out[1] <= VU128_BUF_SIZE

C22_Witness ==
    cls = "vu128" /\ pc = "measured" /\ enc[0] = 0 /\ enc[1] = 0 /\ out = Lit(18, U16)

\* offset(9) + 2^63 <= v <= offset(9) + 2^64 - 1
InNineByteWindow(v) ==
    /\ Leq(Add(offset(9), Pow2(63, U128)).val, v)
    /\ Less(v, Add(offset(9), Pow2(64, U128)).val)

\* the length the claim gives a u128 v >= offset(9)
Tier128(v) ==
    IF InNineByteWindow(v) THEN 9
    ELSE IF Leq(offset(17), v) THEN 18
    ELSE IF Less(v, offset(11)) THEN 10
    ELSE CHOOSE L \in 11..16 : Leq(offset(L), v) /\ Less(v, offset(L + 1))

\* C23: for every u128 x >= offset(9), encode_vu128 chooses length 9
\* exactly when offset(9)+2^63 <= x <= offset(9)+2^64-1, an extended length
\* in 10..16 when x is outside that window and below offset(17) (10 for
\* x < offset(11), then L for offset(L) <= x < offset(L+1)), 18 exactly when
\* x >= offset(17), and never 17
C23_Tiering128 ==
    (cls = "vu128" /\ Leq(offset(9), x)) =>
        /\ encode_len_vu128(x) = Tier128(x)
        /\ encode_len_vu128(x) = 9 <=> InNineByteWindow(x)
        /\ encode_len_vu128(x) = 18 <=> Leq(offset(17), x)
        /\ encode_len_vu128(x) # 17
        /\ HasBuffer => Vu128_len(enc) = Tier128(x)

C23_Witness ==
    /\ cls = "vu128" /\ pc = "encoded" /\ x = offset(9)
    /\ encode_len_vu128(x) = 10 /\ Vu128_len(enc) = 10

\* the marker tiers of class c: 1..4 for 32-bit, 1..8 for 64- and 128-bit
MarkerTiers(c) == IF c \in {"vu32", "vi32"} THEN 1..4 ELSE 1..8

\* the decoded buffer carries the marker of one of the marker tiers
MarkerDecoded == pc = "decoded" /\ HeaderLen(cls, enc) \in MarkerTiers(cls)

\* the bytes after the leading byte that belong to the value are all k
BodyIs(k) == \A i \in 1..(HeaderLen(cls, enc) - 1) : enc[i] = k

\* offset(L) at the width of class c
OffsetIn(c, L) == Cast(offset(L), Width(c))

InExtendedTiers(v) == Leq(offset(10), v) /\ Less(v, offset(17))

\* C25: for each extended 128-bit length L in 10..16 the stored payload
\* holds every remainder x - offset(L) with offset(L) <= x < offset(L+1) =
\* offset(L) + 2^(64+7(L-9)) without losing its top bit, and the decoder
\* reproduces x
C25_ExtendedCapacity ==
    (cls = "vu128" /\ Finished /\ InExtendedTiers(x)) =>
        /\ EncodeLen(cls, x) \in 10..16
        /\ offset(EncodeLen(cls, x) + 1)
               = Add(offset(EncodeLen(cls, x)), Pow2(64 + 7 * (EncodeLen(cls, x) - 9), U128)).val
        /\ RoundTrips

\* encode returned a buffer and wrote it in the arm of the class's maximum length
TerminalBuffer == HasBuffer /\ EncodeLen(cls, x) = BufSize(cls)

\* the statement of C26 with leading byte 0x00 for a 5-byte Vu32
C26_TerminalHeader ==
    TerminalBuffer =>
        /\ enc[0] = 0
        /\ cls \in {"vu128", "vi128"} => enc[1] = 0

\* C26: an encode-produced buffer of the class's maximum length has leading
\* byte 0x00 when it is a 9-byte Vu64 and first two bytes 0x00 0x00 when it
\* is an 18-byte Vu128; a 5-byte Vu32 carries the 5-byte marker, its
\* leading byte is 0x08
C26_TerminalHeaderAmended ==
    TerminalBuffer =>
        /\ cls \in {"vu64", "vi64"} => enc[0] = 0
        /\ cls \in {"vu128", "vi128"} => enc[0] = 0 /\ enc[1] = 0
        /\ cls \in {"vu32", "vi32"} => enc[0] = 8

C26_Witness ==
    cls = "vu32" /\ pc = "encoded" /\ x = U32Max /\ Vu32_len(enc) = 5 /\ enc[0] = 8

\* buffer b with every byte at index >= len replaced by g
TailFilled(b, len, g) == [i \in DOMAIN b |-> IF i >= len THEN g ELSE b[i]]

\* decode gives the same result whatever the bytes at index >= len are
TailIgnored ==
    \A g \in FillBytes :
        DecodeOf(cls, TailFilled(enc, HeaderLen(cls, enc), g)) = DecodeOf(cls, enc)

\* every byte of the buffer at index >= len is 0
TailZero == \A i \in HeaderLen(cls, enc)..(BufSize(cls) - 1) : enc[i] = 0

\* C27: decode reads only the used prefix: buffers that agree on bytes
\* 0..len-1 (len from the header) and differ in the bytes at index >= len
\* decode to the same value, and every encode-produced buffer has all bytes
\* at index >= len equal to 0
C27_UsedPrefixOnly == HasBuffer => TailIgnored /\ TailZero

C27_Witness ==
    /\ cls = "vu64" /\ pc = "decoded" /\ Vu64_len(enc) = 3 /\ enc[2] = 1 /\ out = x
    /\ decode_vu64(TailFilled(enc, 3, 255)).val = x

\* the bytes s placed at the front of a zeroed Vu64 buffer
AsVu64Buffer(s) == [i \in 0..(VU64_BUF_SIZE - 1) |-> IF i < Len(s) THEN s[i + 1] ELSE 0]

\* C28: for every x < offset(9), encode_vu128(x as u128).as_slice() equals
\* encode_vu64(x).as_slice() byte for byte, and decode_vu128 of that buffer
\* equals decode_vu64 of it
C28_Vu128AgreesVu64 ==
    (cls = "vu128" /\ Less(x, offset(9))) =>
        /\ HasBuffer =>
               Vu128_as_slice(enc) = Vu64_as_slice(encode_vu64(Cast(x, U64)).bytes)
        /\ pc = "decoded" =>
               out = Cast(decode_vu64(AsVu64Buffer(Vu128_as_slice(enc))).val, U128)

C28_Witness ==
    /\ cls = "vu128" /\ pc = "decoded" /\ x = Sub(offset(9), Lit(1, U128)).val
    /\ Vu128_len(enc) = 8 /\ out = x
    /\ Len(Vu64_as_slice(encode_vu64(Cast(x, U64)).bytes)) = 8

\* C29: for every u32 x, encode_vu32(x).as_slice() equals
\* encode_vu64(x as u64).as_slice() byte for byte, the 5-byte tier
\* included, so a value written as Vu32 is read back as Vu64 with the same
\* result
C29_Vu32AgreesVu64 ==
    (cls = "vu32" /\ HasBuffer) =>
        /\ Vu32_as_slice(enc) = Vu64_as_slice(encode_vu64(Cast(x, U64)).bytes)
        /\ decode_vu64(AsVu64Buffer(Vu32_as_slice(enc))) = [val |-> Cast(x, U64), ovf |-> FALSE]

C29_Witness ==
    /\ cls = "vu32" /\ pc = "encoded" /\ x = Cast(offset(5), U32)
    /\ Vu32_len(enc) = 5 /\ Vu64_len(encode_vu64(Cast(x, U64)).bytes) = 5

\* ------------------------------------------------------------------------
\* tokio.rs: TokioReadVlqExt / TokioWriteVlqExt over a byte stream
\* ------------------------------------------------------------------------
\* AsyncReadExt::read_exact(self, &mut buf[lo..hi]).await: fills the range or
\* fails with the I/O error, as Read::read_exact does
tokio_read_exact(r, lo, hi) == read_exact(r, lo, hi)

\* TokioReadVlqExt::read_vu32 up to the decode call
tokio_read_vu32(s) ==
    LET r1 == tokio_read_exact(Fresh(s, VU32_BUF_SIZE), 0, 1)
        len == decode_len_vu32(r1.buf[0])
    IN  IF r1.ok /\ len > 1 THEN tokio_read_exact(r1, 1, len) ELSE r1

\* TokioReadVlqExt::read_vu64 up to the decode call
tokio_read_vu64(s) ==
    LET r1 == tokio_read_exact(Fresh(s, VU64_BUF_SIZE), 0, 1)
        len == decode_len_vu64(r1.buf[0])
    IN  IF r1.ok /\ len > 1 THEN tokio_read_exact(r1, 1, len) ELSE r1

\* TokioReadVlqExt::read_vu128 with the body read into buf[1..len]
tokio_read_vu128_from_1(s) ==
    LET r1 == tokio_read_exact(Fresh(s, VU128_BUF_SIZE), 0, 1)
        r2 == IF r1.ok /\ r1.buf[0] = 0 THEN tokio_read_exact(r1, 1, 2) ELSE r1
        len == decode_len_vu128(r2.buf[0], r2.buf[1])
    IN  IF ~r2.ok THEN r2
        ELSE IF len > 2 /\ r2.buf[0] = 0 THEN tokio_read_exact(r2, 2, len)
        ELSE IF len >= 2 THEN tokio_read_exact(r2, 1, len)
        ELSE r2

\* TokioReadVlqExt::read_vu128 up to the decode call
tokio_read_vu128(s) ==
    LET r1 == tokio_read_exact(Fresh(s, VU128_BUF_SIZE), 0, 1)
        r2 == IF r1.ok /\ r1.buf[0] = 0 THEN tokio_read_exact(r1, 1, 2) ELSE r1
        len == decode_len_vu128(r2.buf[0], r2.buf[1])
    IN  IF ~r2.ok THEN r2
        ELSE IF len > 2 THEN tokio_read_exact(r2, 2, len)
        ELSE IF len = 2 /\ r2.buf[0] # 0 THEN tokio_read_exact(r2, 1, 2)
        ELSE r2

\* the reads of the tokio read_* of class c: read_vi* calls read_vu*
TokioReadOf(c, s) ==
    CASE c \in {"vu32", "vi32"} -> tokio_read_vu32(s)
      [] c \in {"vu64", "vi64"} -> tokio_read_vu64(s)
      [] c \in {"vu128", "vi128"} -> tokio_read_vu128(s)

\* .map(zigzag_decode_iW) on the result of read_vu*
tokio_map_zigzag(d) == [val |-> zigzag_decode(d.val), ovf |-> d.ovf]

\* the decode the tokio read_* of class c ends with
TokioDecodeOf(c, b) ==
    CASE c = "vu32" -> decode_vu32(b)
      [] c = "vi32" -> tokio_map_zigzag(decode_vu32(b))
      [] c = "vu64" -> decode_vu64(b)
      [] c = "vi64" -> tokio_map_zigzag(decode_vu64(b))
      [] c = "vu128" -> decode_vu128(b)
      [] c = "vi128" -> tokio_map_zigzag(decode_vu128(b))

\* the encode the tokio write_* of class c starts with: write_vi* passes
\* zigzag_encode_iW(n) to write_vu*
TokioEncodeOf(c, v) ==
    CASE c = "vu32" -> encode_vu32(v)
      [] c = "vi32" -> encode_vu32(zigzag_encode(v))
      [] c = "vu64" -> encode_vu64(v)
      [] c = "vi64" -> encode_vu64(zigzag_encode(v))
      [] c = "vu128" -> encode_vu128(v)
      [] c = "vi128" -> encode_vu128(zigzag_encode(v))

\* tokio write_*(v) of class c: one encode, one write_all of the slice
TokioWritten(c, v) ==
    /\ pc = "run"
    /\ LET e == TokioEncodeOf(c, v)
       IN  IF e.ovf /\ build = "debug"
           THEN pc' = "write_panic" /\ UNCHANGED streamVars
           ELSE /\ stream' = stream \o SliceOf(c, e.bytes)
                /\ sent' = Append(sent, [cls |-> c, x |-> v])
                /\ UNCHANGED <<pc, recv>>
    /\ UNCHANGED <<build, codecVars>>

\* tokio read_* of class c: the reads, then one decode of the buffer
TokioReturned(c) ==
    /\ pc = "run"
    /\ LET r == TokioReadOf(c, stream)
           d == TokioDecodeOf(c, r.buf)
       IN  IF ~r.ok
           THEN /\ recv' = Append(recv, [ok |-> FALSE, val |-> NoVal])
                /\ stream' = r.rest
                /\ UNCHANGED pc
           ELSE IF d.ovf /\ build = "debug"
           THEN pc' = "read_panic" /\ stream' = r.rest /\ UNCHANGED recv
           ELSE /\ recv' = Append(recv, [ok |-> TRUE, val |-> d.val])
                /\ stream' = r.rest
                /\ UNCHANGED pc
    /\ UNCHANGED <<build, codecVars, sent>>

\* one value is written to an empty stream
TokioWriteVu32 == sent = <<>> /\ \E v \in StreamInputs("vu32") : TokioWritten("vu32", v)
TokioWriteVi32 == sent = <<>> /\ \E v \in StreamInputs("vi32") : TokioWritten("vi32", v)
TokioWriteVu64 == sent = <<>> /\ \E v \in StreamInputs("vu64") : TokioWritten("vu64", v)
TokioWriteVi64 == sent = <<>> /\ \E v \in StreamInputs("vi64") : TokioWritten("vi64", v)
TokioWriteVu128 == sent = <<>> /\ \E v \in StreamInputs("vu128") : TokioWritten("vu128", v)
TokioWriteVi128 == sent = <<>> /\ \E v \in StreamInputs("vi128") : TokioWritten("vi128", v)

TokioReadVu32 == NextClass = "vu32" /\ TokioReturned("vu32")
TokioReadVi32 == NextClass = "vi32" /\ TokioReturned("vi32")
TokioReadVu64 == NextClass = "vu64" /\ TokioReturned("vu64")
TokioReadVi64 == NextClass = "vi64" /\ TokioReturned("vi64")
TokioReadVu128 == NextClass = "vu128" /\ TokioReturned("vu128")
TokioReadVi128 == NextClass = "vi128" /\ TokioReturned("vi128")

\* the stream ends one byte earlier than what was written: the last byte
\* never reaches the reader
EndOfStream ==
    /\ pc = "run"
    /\ recv = <<>>
    /\ stream # <<>>
    /\ stream' = SubSeq(stream, 1, Len(stream) - 1)
    /\ UNCHANGED <<build, codecVars, pc, sent, recv>>

NextTokio ==
    \/ TokioWriteVu32
    \/ TokioWriteVi32
    \/ TokioWriteVu64
    \/ TokioWriteVi64
    \/ TokioWriteVu128
    \/ TokioWriteVi128
    \/ TokioReadVu32
    \/ TokioReadVi32
    \/ TokioReadVu64
    \/ TokioReadVi64
    \/ TokioReadVu128
    \/ TokioReadVi128
    \/ EndOfStream

SpecTokio == InitStream /\ [][NextTokio]_vars

\* this step is a tokio read_* call, a tokio write_* call
IsReadStep == Len(recv') > Len(recv) \/ pc' = "read_panic"
IsWriteStep == Len(sent') > Len(sent) \/ pc' = "write_panic"

\* the blocking read_* on the same stream makes the same reads (ranges and
\* order) and takes the same step: same bytes consumed, same value or error
ReadsAsBlocking ==
    /\ TokioReadOf(NextClass, stream).reads = ReadOf(NextClass, stream).reads
    /\ Returned(NextClass)

\* the blocking write_* of the same value takes the same step: same bytes emitted
WritesAsBlocking ==
    IF Len(sent') > Len(sent)
    THEN Written(sent'[1].cls, sent'[1].x)
    ELSE \E c \in Classes : \E v \in StreamInputs(c) : Written(c, v)

\* C30: for every class and every input stream the tokio read_* performs
\* the same sequence of reads (header byte, optional 128-bit second byte,
\* then body) as the blocking read_*, consumes the same number of bytes and
\* returns the same value or error, and the tokio write_* emits the same
\* bytes as the blocking write_*
C30_TokioMatchesBlocking ==
    [][(IsReadStep => ReadsAsBlocking) /\ (IsWriteStep => WritesAsBlocking)]_vars

\* a 9-byte 128-bit value has been read whole: three reads, 0..1, 1..2, 2..9
C30_Witness ==
    /\ Len(sent) = 1 /\ sent[1].cls = "vu128" /\ Len(recv) = 1 /\ recv[1].ok
    /\ stream = <<>>
    /\ sent[1].x = Add(offset(9), Pow2(63, U128)).val /\ recv[1].val = sent[1].x
    /\ TokioReadOf("vu128", SliceOf("vu128", TokioEncodeOf("vu128", sent[1].x).bytes)).reads
           = <<<<0, 1>>, <<1, 2>>, <<2, 9>>>>

====
